---- MODULE Spec2Model ----
(***************************************************************************)
(* Model of packages/@contentlayer/core/src/generation/generate-dotpkg.ts  *)
(*                                                                         *)
(* JavaScript strings are sequences of one-character strings, so that      *)
(* concatenation, prefixes and character replacement are computed.  An     *)
(* optional parameter that is not passed is a record field that is absent. *)
(***************************************************************************)
EXTENDS Naturals, Sequences, FiniteSets, TLC

VARIABLES
  writtenFilesCache, \* Record<FilePath, DocumentHash> of the stream (line 85)
  disk,              \* the files below targetPath: path -> content
  last,              \* the latest writeFile call and what it did
  nCalls,            \* writeFile calls made so far on this cache
  fnArgs,            \* arguments handed to a pure function of the module
  fnResult,          \* what the function returned for fnArgs
  config,            \* config.source.options: onSuccess, enableDynamicBuild
  entry,             \* the entry point that runs: generateDotpkg(Stream)
  pc,                \* where the stream is
  resolve,           \* the two effects of resolveParams (lines 87-93)
  schemaResolutions, \* calls of config.source.provideSchema
  emitted,           \* emissions of config.source.fetchData so far
  nOutcomes,         \* elements the stream has produced downstream
  outcome,           \* the element produced for the current cycle
  cycle,             \* the cycle of the current emission
  prev,              \* the previous cycle, once it has succeeded
  result             \* what generateDotpkg returned to its caller

wcVars == <<last, nCalls>>
fnVars == <<fnArgs, fnResult>>
streamVars == <<config, entry, pc, resolve, schemaResolutions, emitted,
                nOutcomes, outcome, cycle, prev, result>>

vars == <<writtenFilesCache, disk, last, nCalls, fnArgs, fnResult, config,
          entry, pc, resolve, schemaResolutions, emitted, nOutcomes, outcome,
          cycle, prev, result>>

(***************************************************************************)
(* Strings                                                                 *)
(***************************************************************************)

LowerSeq == <<"a","b","c","d","e","f","g","h","i","j","k","l","m",
              "n","o","p","q","r","s","t","u","v","w","x","y","z">>
UpperSeq == <<"A","B","C","D","E","F","G","H","I","J","K","L","M",
              "N","O","P","Q","R","S","T","U","V","W","X","Y","Z">>
DigitSeq == <<"0","1","2","3","4","5","6","7","8","9">>

Range(s) == {s[i] : i \in DOMAIN s}
IsLower(c) == c \in Range(LowerSeq)
IsUpper(c) == c \in Range(UpperSeq)
IsDigit(c) == c \in Range(DigitSeq)

\* String.prototype.toLowerCase / toUpperCase, per character
charToLower(c) ==
  IF IsUpper(c) THEN LowerSeq[CHOOSE i \in DOMAIN UpperSeq : UpperSeq[i] = c] ELSE c
charToUpper(c) ==
  IF IsLower(c) THEN UpperSeq[CHOOSE i \in DOMAIN LowerSeq : LowerSeq[i] = c] ELSE c
toLowerCase(s) == [i \in DOMAIN s |-> charToLower(s[i])]

\* Array.prototype.join('') of a list of strings
RECURSIVE joinEmpty(_)
joinEmpty(ss) == IF ss = <<>> THEN <<>> ELSE Head(ss) \o joinEmpty(Tail(ss))

\* `${n}` for a non-negative integer n
RECURSIVE numberToString(_)
numberToString(n) ==
  IF n < 10 THEN <<DigitSeq[n + 1]>>
  ELSE numberToString(n \div 10) \o <<DigitSeq[(n % 10) + 1]>>

\* str.replace(/\//g, '__')
RECURSIVE replaceSlashes(_)
replaceSlashes(s) ==
  IF s = <<>> THEN <<>>
  ELSE (IF Head(s) = "/" THEN <<"_", "_">> ELSE <<Head(s)>>) \o replaceSlashes(Tail(s))

\* a file name that is the string as it is
leftPadNever(str) == str

\* lines 513-518
leftPadWithUnderscoreIfStartsWithNumber(str) ==
  IF str # <<>> /\ IsDigit(str[1]) THEN <<"_">> \o str ELSE str

\* line 511
idToFileName(id) == replaceSlashes(leftPadWithUnderscoreIfStartsWithNumber(id))

(***************************************************************************)
(* camelCase(_, { stripRegexp: /[^A-Z0-9\_]/gi }) of the camel-case package *)
(* as line 363 calls it: split at case changes, replace the stripped       *)
(* characters by the separator, trim and split at the separators, lower    *)
(* the first word, capitalise the others, join.                            *)
(***************************************************************************)

\* the "\0" the package inserts between words
Sep == "NUL"

IsWordChar(c) == IsLower(c) \/ IsUpper(c) \/ IsDigit(c) \/ c = "_"

\* replace(/([a-z0-9])([A-Z])/g, "$1\0$2")
RECURSIVE splitLowerUpper(_)
splitLowerUpper(s) ==
  IF Len(s) < 2 THEN s
  ELSE IF (IsLower(s[1]) \/ IsDigit(s[1])) /\ IsUpper(s[2])
       THEN <<s[1], Sep, s[2]>> \o splitLowerUpper(Tail(Tail(s)))
       ELSE <<s[1]>> \o splitLowerUpper(Tail(s))

\* replace(/([A-Z])([A-Z][a-z])/g, "$1\0$2")
RECURSIVE splitUpperUpperLower(_)
splitUpperUpperLower(s) ==
  IF Len(s) < 3 THEN s
  ELSE IF IsUpper(s[1]) /\ IsUpper(s[2]) /\ IsLower(s[3])
       THEN <<s[1], Sep, s[2], s[3]>> \o splitUpperUpperLower(Tail(Tail(Tail(s))))
       ELSE <<s[1]>> \o splitUpperUpperLower(Tail(s))

\* replace(stripRegexp, "\0"): every character outside [A-Za-z0-9_]
stripToSep(s) == [i \in DOMAIN s |-> IF IsWordChar(s[i]) THEN s[i] ELSE Sep]

\* the slice between the leading and the trailing separators
RECURSIVE trimLeft(_)
trimLeft(s) == IF s # <<>> /\ Head(s) = Sep THEN trimLeft(Tail(s)) ELSE s
RECURSIVE trimRight(_)
trimRight(s) ==
  IF s # <<>> /\ s[Len(s)] = Sep THEN trimRight(SubSeq(s, 1, Len(s) - 1)) ELSE s

\* String.prototype.split("\0"): the empty string splits into one empty word
RECURSIVE splitAtSep(_, _)
splitAtSep(s, word) ==
  IF s = <<>> THEN <<word>>
  ELSE IF Head(s) = Sep THEN <<word>> \o splitAtSep(Tail(s), <<>>)
       ELSE splitAtSep(Tail(s), Append(word, Head(s)))

pascalCaseTransform(input, index) ==
  IF input = <<>> THEN <<>>
  ELSE IF index > 0 /\ IsDigit(input[1])
       THEN <<"_", input[1]>> \o toLowerCase(Tail(input))
       ELSE <<charToUpper(input[1])>> \o toLowerCase(Tail(input))

\* index is 0-based, as the index Array.prototype.map passes
camelCaseTransform(input, index) ==
  IF index = 0 THEN toLowerCase(input) ELSE pascalCaseTransform(input, index)

camelCase(input) ==
  LET words == splitAtSep(
                 trimRight(trimLeft(
                   stripToSep(splitUpperUpperLower(splitLowerUpper(input))))),
                 <<>>)
  IN  joinEmpty([i \in DOMAIN words |-> camelCaseTransform(words[i], i - 1)])

(***************************************************************************)
(* makeDataExportFile (lines 337-388)                                      *)
(***************************************************************************)

\* /^(?![0-9])([a-zA-Z0-9_$]+)$/.test(str)  (line 357)
isValidJsVarName(str) ==
  /\ str # <<>>
  /\ ~IsDigit(str[1])
  /\ \A i \in DOMAIN str : IsWordChar(str[i]) \/ str[i] = "$"

\* lines 359-367; fileIndex is 0-based
makeVariableName(docDefName, usedVariableNames, id, fileIndex) ==
  LET v == camelCase(idToFileName(id))
  IN  IF isValidJsVarName(v) /\ v \notin usedVariableNames
      THEN v
      ELSE docDefName \o numberToString(fileIndex)

\* lines 369-375: the variable names of documentIds[1..n], in order
RECURSIVE variableNames(_, _, _)
variableNames(docDefName, documentIds, n) ==
  IF n = 0 THEN <<>>
  ELSE LET before == variableNames(docDefName, documentIds, n - 1)
       IN  Append(before,
                  makeVariableName(docDefName, Range(before), documentIds[n], n - 1))

\* what a thrown TypeError makes of the enclosing effect: a defect
TypeErrorDefect == [defect |-> "TypeError"]
IsDefect(x) == DOMAIN x = {"defect"}

\* The barrel module of one type.  A singleton re-exports documentIds[0]; with
\* no document idToFileName(undefined) throws (undefined.replace).
makeDataExportFile(docDef, documentIds) ==
  IF docDef.isSingleton
  THEN IF documentIds = <<>>
       THEN TypeErrorDefect
       ELSE [exportDefaultFrom |-> idToFileName(documentIds[1])]
  ELSE LET names == variableNames(docDef.name, documentIds, Len(documentIds))
       IN  [imports |-> [i \in DOMAIN documentIds |->
                           [variableName |-> names[i],
                            from |-> idToFileName(documentIds[i])]],
            exportArray |-> names]

(***************************************************************************)
(* writeFileWithWrittenFilesCache (lines 307-335)                          *)
(***************************************************************************)

\* `rmBeforeWrite = true` in the parameter destructuring (line 313)
rmBeforeWriteOf(a) ==
  IF "rmBeforeWrite" \in DOMAIN a THEN a.rmBeforeWrite ELSE TRUE

\* documentHash !== undefined
hasDocumentHash(a) == "documentHash" \in DOMAIN a

\* line 323
fileIsUpToDate(wfc, a) ==
  /\ hasDocumentHash(a)
  /\ a.filePath \in DOMAIN wfc
  /\ wfc[a.filePath] = a.documentHash

\* `if (documentHash)` (line 332): undefined and the empty string are falsy
documentHashIsTruthy(a) == hasDocumentHash(a) /\ a.documentHash # <<>>

\* writtenFilesCache[filePath] = documentHash (line 333)
cacheStore(wfc, p, h) ==
  [x \in DOMAIN wfc \cup {p} |-> IF x = p THEN h ELSE wfc[x]]

\* fs.rm(filePath, { force: true }): a missing file is not an error
fsRm(dsk, p) == [x \in DOMAIN dsk \ {p} |-> dsk[x]]

\* fs.writeFile(filePath, content): replaces the file's contents
fsWriteFile(dsk, p, c) ==
  [x \in DOMAIN dsk \cup {p} |-> IF x = p THEN c ELSE dsk[x]]

\* The generator of lines 321-335 run to its end.  rmRes and wrRes are what
\* fs.rm and fs.writeFile answer when they are called ("ok" or "fail").
\* ops lists the filesystem operations the call made, in order.
writeFileWithWrittenFilesCache(wfc, dsk, a, rmRes, wrRes) ==
  IF ~rmBeforeWriteOf(a) /\ fileIsUpToDate(wfc, a)
  THEN [cache |-> wfc, disk |-> dsk, ops |-> <<>>, exit |-> "success"]
  ELSE IF rmBeforeWriteOf(a) /\ rmRes = "fail"
  THEN [cache |-> wfc, disk |-> dsk, ops |-> <<"rm">>, exit |-> "RmError"]
  ELSE
    LET d1   == IF rmBeforeWriteOf(a) THEN fsRm(dsk, a.filePath) ELSE dsk
        ops1 == IF rmBeforeWriteOf(a) THEN <<"rm">> ELSE <<>>
    IN  IF wrRes = "fail"
        THEN [cache |-> wfc, disk |-> d1,
              ops |-> Append(ops1, "writeFile"), exit |-> "WriteFileError"]
        ELSE [cache |-> IF documentHashIsTruthy(a)
                        THEN cacheStore(wfc, a.filePath, a.documentHash)
                        ELSE wfc,
              disk  |-> fsWriteFile(d1, a.filePath, a.content),
              ops   |-> Append(ops1, "writeFile"), exit |-> "success"]

(***************************************************************************)
(* Schema, documents and cache, as the pipeline reads them                 *)
(***************************************************************************)

\* DataCache.CacheItem: the document carries its own documentHash beside the
\* item's (line 223 reads it from the document, line 208 from the item)
CacheItem(id, typeName, hash) ==
  [document |-> [_id |-> id, type |-> typeName, documentHash |-> hash],
   documentHash |-> hash]

\* getDataVariableName({ docDef }): a pure function of the type
getDataVariableName(docDef) ==
  [dataVariableName |-> docDef.name, isSingleton |-> docDef.isSingleton]

Left(e) == [tag |-> "Left", left |-> e]
Right(v) == [tag |-> "Right", right |-> v]
IsLeft(x) == x.tag = "Left"
IsRight(x) == x.tag = "Right"

(***************************************************************************)
(* writeFilesForCache, the artifacts (lines 185-266)                       *)
(***************************************************************************)

Generated     == <<"g","e","n","e","r","a","t","e","d">>
PackageJson   == <<"p","a","c","k","a","g","e",".","j","s","o","n">>
TypesDTs      == <<"t","y","p","e","s",".","d",".","t","s">>
IndexDTs      == <<"i","n","d","e","x",".","d",".","t","s">>
IndexMjs      == <<"i","n","d","e","x",".","m","j","s">>
UIndexMjs     == <<"_","i","n","d","e","x",".","m","j","s">>
UIndexJson    == <<"_","i","n","d","e","x",".","j","s","o","n">>
DotJson       == <<".","j","s","o","n">>
VersionPrefix == <<"0",".","0",".","0","-">>

\* withPrefix(...path_) = filePathJoin(targetPath, ...path_): the segments
\* below targetPath
withPrefix1(a) == <<a>>
withPrefix2(a, b) == <<a, b>>
withPrefix3(a, b, c) == <<a, b, c>>

\* lines 280-299
makePackageJson(schemaHash) ==
  [name |-> "dot-contentlayer", version |-> VersionPrefix \o schemaHash]

\* `options.experimental.enableDynamicBuild ? ... : T.unit` (line 266)
bundlerEnabled(options) == options.enableDynamicBuild = "true"

\* fetchContentStr of makeIndexMjs and makeDataTypes (lines 423-425, 483-485):
\* '' only when the flag `=== false`
fetchContentStr(options) == options.enableDynamicBuild # "false"

\* lines 390-466
makeIndexMjs(schemaDef, options, isDev) ==
  LET defs == schemaDef.documentTypeDefMap
  IN  [constImports |-> [i \in DOMAIN defs |->
                           [name |-> getDataVariableName(defs[i]),
                            from |-> <<defs[i].name,
                                       IF isDev THEN UIndexMjs ELSE UIndexJson>>]],
       constExports |-> [i \in DOMAIN defs |-> getDataVariableName(defs[i])],
       allDocuments |-> [i \in DOMAIN defs |->
                           [spread |-> ~defs[i].isSingleton,
                            name |-> getDataVariableName(defs[i])]],
       fetchContent |-> fetchContentStr(options)]

\* lines 470-509
makeDataTypes(schemaDef, options) ==
  LET defs == schemaDef.documentTypeDefMap
  IN  [dataConsts |-> [i \in DOMAIN defs |->
                         [name |-> getDataVariableName(defs[i]),
                          type |-> defs[i].name, array |-> ~defs[i].isSingleton]],
       fetchContent |-> fetchContentStr(options)]

\* renderTypes({ schemaDef, generationOptions }) of generate-types.js
renderTypes(schemaDef) == [renderedTypesOf |-> schemaDef]

allDocumentsOf(cache) ==
  [i \in DOMAIN cache.cacheItemsMap |-> cache.cacheItemsMap[i].document]

\* documents.filter((_) => _[typeNameField] === name)
RECURSIVE filterByType(_, _)
filterByType(documents, name) ==
  IF documents = <<>> THEN <<>>
  ELSE (IF Head(documents).type = name THEN <<Head(documents)>> ELSE <<>>)
       \o filterByType(Tail(documents), name)

\* the documents without the filter on the type
documentsOfAnyType(cache, docDef) == allDocumentsOf(cache)

documentsOfType(cache, docDef) == filterByType(allDocumentsOf(cache), docDef.name)

\* lines 199-206
dataBarrelFiles(schemaDef, cache) ==
  LET defs == schemaDef.documentTypeDefMap
  IN  [i \in DOMAIN defs |->
        LET docs == documentsOfType(cache, defs[i])
        IN  [content  |-> makeDataExportFile(defs[i], [k \in DOMAIN docs |-> docs[k]._id]),
             filePath |-> withPrefix3(Generated, defs[i].name, UIndexMjs)]]

\* lines 208-212
individualDataJsonFiles(cache) ==
  [i \in DOMAIN cache.cacheItemsMap |->
    LET item == cache.cacheItemsMap[i]
    IN  [content      |-> item.document,
         filePath     |-> withPrefix3(Generated, item.document.type,
                                      idToFileName(item.document._id) \o DotJson),
         documentHash |-> item.documentHash]]

\* documents.map((_) => _.documentHash).join('')  (line 223)
collectionDocumentHash(documents) ==
  joinEmpty([k \in DOMAIN documents |-> documents[k].documentHash])

\* lines 214-226; documents[0] of an empty list is undefined
collectionDataJsonFiles(schemaDef, cache) ==
  LET defs == schemaDef.documentTypeDefMap
  IN  [i \in DOMAIN defs |->
        LET docs == documentsOfType(cache, defs[i])
        IN  [content      |-> IF defs[i].isSingleton
                              THEN (IF docs = <<>> THEN [undefined |-> TRUE] ELSE docs[1])
                              ELSE [array |-> docs],
             filePath     |-> withPrefix3(Generated, defs[i].name, UIndexJson),
             documentHash |-> collectionDocumentHash(docs)]]

\* line 228-229: [withPrefix('generated'), ...dataDirPaths]
dirPaths(schemaDef) ==
  LET defs == schemaDef.documentTypeDefMap
  IN  <<withPrefix1(Generated)>>
      \o [i \in DOMAIN defs |-> withPrefix2(Generated, defs[i].name)]

\* the writeFile calls of T.tuplePar, in its order (lines 242-265)
writeFileCalls(schemaDef, cache, options, isDev) ==
  << [filePath |-> withPrefix1(PackageJson), content |-> makePackageJson(schemaDef.hash)],
     [filePath |-> withPrefix2(Generated, TypesDTs), content |-> renderTypes(schemaDef),
      rmBeforeWrite |-> TRUE],
     [filePath |-> withPrefix2(Generated, IndexDTs),
      content |-> makeDataTypes(schemaDef, options), rmBeforeWrite |-> TRUE],
     [filePath |-> withPrefix2(Generated, IndexMjs),
      content |-> makeIndexMjs(schemaDef, options, isDev)] >>
  \o dataBarrelFiles(schemaDef, cache)
  \o individualDataJsonFiles(cache)
  \o collectionDataJsonFiles(schemaDef, cache)

\* What the generator throws before its first write: building the barrel of a
\* singleton type without document (line 352) is a TypeError.
synthesisDefect(schemaDef, cache) ==
  \E i \in DOMAIN schemaDef.documentTypeDefMap :
    IsDefect(dataBarrelFiles(schemaDef, cache)[i].content)

\* Object.keys(cache.cacheItemsMap).length (line 107)
documentCount(cache) == Len(cache.cacheItemsMap)

(***************************************************************************)
(* The Write Cache on its own: any sequence of calls on one cache          *)
(***************************************************************************)

FsResults == {"ok", "fail"}

WcPaths == { << <<"a">> >>, << <<"b">> >> }
WcContents == {"c1", "c2"}
\* provided fingerprints: any string, the empty one included
WcHashes == { <<>>, <<"x">>, <<"y">> }

WcBase == [filePath : WcPaths, content : WcContents]
WcArgs ==
  WcBase
  \cup [filePath : WcPaths, content : WcContents, documentHash : WcHashes]
  \cup [filePath : WcPaths, content : WcContents, rmBeforeWrite : BOOLEAN]
  \cup [filePath : WcPaths, content : WcContents, documentHash : WcHashes,
        rmBeforeWrite : BOOLEAN]

NoCall == [called |-> FALSE]
NoResult == [returned |-> FALSE]
NoCycle ==
  [started |-> FALSE, emission |-> << >>, calls |-> << >>, dirsPending |-> {},
   dirsMade |-> {}, status |-> << >>, ops |-> << >>, bundler |-> "none",
   result |-> << >>, callbackCalls |-> 0]
NoPrev == [ok |-> FALSE]

CallRecord(a, wfc, r) ==
  [called |-> TRUE, args |-> a, cacheBefore |-> wfc, ops |-> r.ops,
   exit |-> r.exit]

CallWriteFile(a, rmRes, wrRes) ==
  LET r == writeFileWithWrittenFilesCache(writtenFilesCache, disk, a, rmRes, wrRes)
  IN  /\ writtenFilesCache' = r.cache
      /\ disk' = r.disk
      /\ last' = CallRecord(a, writtenFilesCache, r)
      /\ nCalls' = nCalls + 1
      /\ UNCHANGED <<fnVars, streamVars>>

\* the variables of the parts a specification does not run
NoWriteCalls == last = NoCall /\ nCalls = 0
NoFunctionCall == fnArgs = << >> /\ fnResult = NoResult
NoStream ==
  /\ config = << >> /\ entry = "none" /\ pc = "none" /\ resolve = << >>
  /\ schemaResolutions = 0 /\ emitted = 0 /\ nOutcomes = 0
  /\ outcome = NoResult /\ cycle = NoCycle /\ prev = NoPrev
  /\ result = NoResult

InitWC ==
  /\ writtenFilesCache = << >>
  /\ disk = << >>
  /\ NoWriteCalls
  /\ NoFunctionCall
  /\ NoStream

\* how many calls one run of the Write Cache model makes
MaxCalls == 3

NextWC ==
  \E a \in WcArgs, rmRes \in FsResults, wrRes \in FsResults :
    nCalls < MaxCalls /\ CallWriteFile(a, rmRes, wrRes)

SpecWC == InitWC /\ [][NextWC]_vars

(***************************************************************************)
(* generateDotpkgStream and generateDotpkg (lines 55-123)                  *)
(*                                                                         *)
(* The stream is pulled by its consumer: one element at a time.  The files *)
(* the writes leave on disk are followed in SpecWC; here each cycle keeps  *)
(* the filesystem operations every writeFile call made.                    *)
(***************************************************************************)

\* emissions of the data fetcher one run of the model follows
MaxEmissions == 2

Page == <<"P","a","g","e">>
Post == <<"P","o","s","t">>
Home == <<"h","o","m","e">>
Id1a == <<"1","-","a">>
H1 == <<"h","1">>
H2 == <<"h","2">>

\* what config.source.provideSchema resolves to: a singleton type, or a
\* collection type
StreamSchemaDefs ==
  { [hash |-> <<"s","1">>,
     documentTypeDefMap |-> << [name |-> Page, isSingleton |-> TRUE] >>],
    [hash |-> <<"s","2">>,
     documentTypeDefMap |-> << [name |-> Post, isSingleton |-> FALSE] >>] }

\* the Cache snapshots config.source.fetchData emits for a schema: no
\* document, or one document of the schema's type with one of two hashes
StreamCaches(schemaDef) ==
  LET def == schemaDef.documentTypeDefMap[1]
      id  == IF def.isSingleton THEN Home ELSE Id1a
  IN  { [cacheItemsMap |-> << >>] }
      \cup { [cacheItemsMap |-> << CacheItem(id, def.name, h) >>] : h \in {H1, H2} }

FetchEmissions(schemaDef) ==
  {Left("SourceFetchDataError")} \cup {Right(c) : c \in StreamCaches(schemaDef)}

AllFetchEmissions == UNION {FetchEmissions(sd) : sd \in StreamSchemaDefs}

\* what fs.rm and fs.writeFile answer in one writeFile call; after a failed
\* removal the write is not called
FsAnswers == {<<"ok", "ok">>, <<"ok", "fail">>, <<"fail", "ok">>}

Options == [onSuccess : BOOLEAN, enableDynamicBuild : {"true", "false", "undefined"}]

\* generateDotpkg passes isDev: false (line 63)
isDevOf(e) == e = "generateDotpkgStream"

\* a stream that resolves its parameters again after every element
afterElementResolveAgain(e, next) == IF e = "generateDotpkg" THEN "done" ELSE "resolving"

\* S.take(1), S.runCollect (lines 64-65): the one-shot run ends with the first
\* element, the stream goes on to next
afterElement(e, next) == IF e = "generateDotpkg" THEN "done" ELSE next

\* a chain that does not look at the side of the resolved parameters
chainMapFetchAlways(resolved) == "fetching"

\* S.chainMapEitherRight (line 101): a Left of resolveParams is the only
\* element, a Right is chained into the fetchData stream
chainMapEitherRight(resolved) == IF IsLeft(resolved) THEN "ended" ELSE "fetching"

\* T.map(Chunk.unsafeHead), T.rightOrFail (lines 66-67)
rightOrFail(o) ==
  IF IsRight(o) THEN [returned |-> TRUE, value |-> o.right]
  ELSE [returned |-> TRUE, failure |-> o.left]

\* the element o is produced downstream
Produce(o, next) ==
  /\ outcome' = o
  /\ nOutcomes' = nOutcomes + 1
  /\ pc' = afterElement(entry, next)
  /\ result' = IF entry = "generateDotpkg" THEN rightOrFail(o) ELSE result

\* a defect (a thrown exception) fails the stream itself
Die(d) ==
  /\ pc' = "died"
  /\ result' = IF entry = "generateDotpkg" THEN [returned |-> TRUE, defect |-> d]
               ELSE result

ResolveErrors == [schemaDef |-> "SourceProvideSchemaError", targetPath |-> "MkdirError"]
OtherSide(k) == IF k = "schemaDef" THEN "targetPath" ELSE "schemaDef"

\* One effect of T.structPar (lines 88-91) settles; v is the schema when it is
\* provideSchema that succeeds.  The first failure interrupts the other effect,
\* unless that one fails at the same time; T.either then reports one of the
\* failures.
ResolveSettles(k, r, v) ==
  /\ pc = "resolving"
  /\ resolve[k] = "running"
  /\ IF r = "ok"
     THEN /\ resolve' = [resolve EXCEPT ![k] = "ok", !.value = IF k = "schemaDef" THEN v ELSE @]
          /\ pc' = IF resolve[OtherSide(k)] = "ok"
                   THEN chainMapEitherRight(Right(resolve'.value)) ELSE pc
          /\ UNCHANGED <<outcome, nOutcomes, result>>
     ELSE \E o \in (IF resolve[OtherSide(k)] = "running"
                    THEN {"interrupted", "fail"} ELSE {resolve[OtherSide(k)]}) :
          \E e \in {ResolveErrors[k]}
                   \cup (IF o = "fail" THEN {ResolveErrors[OtherSide(k)]} ELSE {}) :
            /\ resolve' = [resolve EXCEPT ![k] = "fail", ![OtherSide(k)] = o]
            /\ Produce(Left(e), chainMapEitherRight(Left(e)))
  /\ UNCHANGED <<writtenFilesCache, disk, wcVars, fnVars, config, entry,
                 schemaResolutions, emitted, cycle, prev>>

ProvideSchemaFails == ResolveSettles("schemaDef", "fail", << >>)
ProvideSchemaSucceeds(schemaDef) == ResolveSettles("schemaDef", "ok", schemaDef)
ArtifactsDirMkdirSettles(r) == ResolveSettles("targetPath", r, << >>)

NewCycle(e) ==
  [NoCycle EXCEPT !.started = TRUE, !.emission = e, !.result = e]

\* the cycle that has just produced its element, if it succeeded
Summary ==
  IF cycle.started /\ IsRight(cycle.emission) /\ IsRight(outcome)
  THEN [ok |-> TRUE, cache |-> cycle.emission.right, ops |-> cycle.ops]
  ELSE NoPrev

\* config.source.fetchData emits (line 103).  S.mapEffectEitherRight (line 104)
\* hands a Right to writeFilesForCache and passes a Left on.
FetchDataEmits(e) ==
  /\ pc = "fetching"
  /\ e \in FetchEmissions(resolve.value)
  /\ emitted < MaxEmissions
  /\ emitted' = emitted + 1
  /\ cycle' = NewCycle(e)
  /\ prev' = Summary
  /\ outcome' = NoResult
  /\ pc' = IF IsRight(e) THEN "writeFilesForCache" ELSE "successCallback"
  /\ UNCHANGED <<writtenFilesCache, disk, wcVars, fnVars, config, entry, resolve,
                 schemaResolutions, nOutcomes, result>>

\* lines 185-229: the artifacts are built, then the directories are made
WriteFilesForCacheBegins ==
  /\ pc = "writeFilesForCache"
  /\ IF synthesisDefect(resolve.value, cycle.emission.right)
     THEN Die("TypeError") /\ UNCHANGED cycle
     ELSE /\ pc' = "mkdirp"
          /\ cycle' = [cycle EXCEPT
               !.calls = writeFileCalls(resolve.value, cycle.emission.right,
                                        config, isDevOf(entry)),
               !.dirsPending = Range(dirPaths(resolve.value))]
          /\ UNCHANGED result
  /\ UNCHANGED <<writtenFilesCache, disk, wcVars, fnVars, config, entry, resolve,
                 schemaResolutions, emitted, nOutcomes, outcome, prev>>

batchSettled(status, bundler) ==
  /\ \A i \in DOMAIN status : status[i] = "done"
  /\ bundler \in {"none", "done"}

\* a failing batch whose other members are left as they are
failBatchLeavesRunning(c, e) == [c EXCEPT !.result = Left(e)]

\* T.tuplePar fails with the first failure and interrupts what still runs:
\* no member of the batch is left running
failBatch(c, e) ==
  [c EXCEPT !.status = << >>, !.ops = << >>, !.bundler = "none", !.result = Left(e)]

\* T.forEachPar_([...], fs.mkdirp) (line 229): one mkdirp settles
Mkdirp(d, r) ==
  /\ pc = "mkdirp"
  /\ d \in cycle.dirsPending
  /\ IF r = "ok"
     THEN IF cycle.dirsPending = {d}
          THEN LET n == Len(cycle.calls)
               IN  /\ pc' = "tuplePar"
                   /\ cycle' = [cycle EXCEPT
                        !.dirsPending = {}, !.dirsMade = @ \cup {d},
                        !.status = [i \in 1..n |-> "pending"],
                        !.ops = [i \in 1..n |-> << >>],
                        !.bundler = IF bundlerEnabled(config) THEN "pending" ELSE "none"]
          ELSE /\ pc' = pc
               /\ cycle' = [cycle EXCEPT !.dirsPending = @ \ {d}, !.dirsMade = @ \cup {d}]
     ELSE /\ pc' = "successCallback"
          /\ cycle' = [cycle EXCEPT !.dirsPending = {}, !.result = Left("MkdirError")]
  /\ UNCHANGED <<writtenFilesCache, disk, wcVars, fnVars, config, entry, resolve,
                 schemaResolutions, emitted, nOutcomes, outcome, prev, result>>

\* T.eitherMap(() => ({ documentCount })) (line 107) once the batch has settled
batchResult(c) == Right([documentCount |-> documentCount(c.emission.right)])

\* one writeFile call of T.tuplePar (lines 242-265) runs to its end
WriteFile(i, rmRes, wrRes) ==
  /\ pc = "tuplePar"
  /\ cycle.status[i] = "pending"
  /\ LET r == writeFileWithWrittenFilesCache(writtenFilesCache, << >>,
                                             cycle.calls[i], rmRes, wrRes)
         st == [cycle.status EXCEPT ![i] = IF r.exit = "success" THEN "done" ELSE "failed"]
         op == [cycle.ops EXCEPT ![i] = r.ops]
     IN  /\ writtenFilesCache' = r.cache
         /\ IF r.exit # "success"
            THEN /\ cycle' = failBatch(cycle, r.exit)
                 /\ pc' = "successCallback"
            ELSE IF batchSettled(st, cycle.bundler)
            THEN /\ cycle' = [cycle EXCEPT !.status = st, !.ops = op,
                                !.result = batchResult(cycle)]
                 /\ pc' = "successCallback"
            ELSE /\ cycle' = [cycle EXCEPT !.status = st, !.ops = op]
                 /\ pc' = pc
  /\ UNCHANGED <<disk, wcVars, fnVars, config, entry, resolve, schemaResolutions,
                 emitted, nOutcomes, outcome, prev, result>>

\* makeFetchContentWorker (lines 529-608), the last member of T.tuplePar
BundlerStarts ==
  /\ pc = "tuplePar"
  /\ cycle.bundler = "pending"
  /\ cycle' = [cycle EXCEPT !.bundler = "running"]
  /\ UNCHANGED <<writtenFilesCache, disk, wcVars, fnVars, config, entry, pc, resolve,
                 schemaResolutions, emitted, nOutcomes, outcome, prev, result>>

BundlerResults == {"ok", "GetContentlayerVersionError", "EsbuildError"}

BundlerSettles(r) ==
  /\ pc = "tuplePar"
  /\ cycle.bundler = "running"
  /\ IF r # "ok"
     THEN /\ cycle' = failBatch(cycle, r)
          /\ pc' = "successCallback"
     ELSE IF batchSettled(cycle.status, "done")
     THEN /\ cycle' = [cycle EXCEPT !.bundler = "done", !.result = batchResult(cycle)]
          /\ pc' = "successCallback"
     ELSE /\ cycle' = [cycle EXCEPT !.bundler = "done"]
          /\ pc' = pc
  /\ UNCHANGED <<writtenFilesCache, disk, wcVars, fnVars, config, entry, resolve,
                 schemaResolutions, emitted, nOutcomes, outcome, prev, result>>

\* S.mapEffect (lines 110-119) runs successCallback for the element it is given
\* and folds its failure into a Left.  Without onSuccess it is T.unit (line 126).
successCallbackRuns(element, onSuccess) == onSuccess

SuccessCallbackSkipped ==
  /\ pc = "successCallback"
  /\ ~successCallbackRuns(cycle.result, config.onSuccess)
  /\ Produce(cycle.result, "fetching")
  /\ UNCHANGED <<writtenFilesCache, disk, wcVars, fnVars, config, entry, resolve,
                 schemaResolutions, emitted, cycle, prev>>

SuccessCallbackSettles(r) ==
  /\ pc = "successCallback"
  /\ successCallbackRuns(cycle.result, config.onSuccess)
  /\ cycle' = [cycle EXCEPT !.callbackCalls = @ + 1]
  /\ Produce(IF r = "ok" THEN cycle.result ELSE Left("SuccessCallbackError"), "fetching")
  /\ UNCHANGED <<writtenFilesCache, disk, wcVars, fnVars, config, entry, resolve,
                 schemaResolutions, emitted, prev>>

Init ==
  /\ writtenFilesCache = << >>
  /\ disk = << >>
  /\ NoWriteCalls
  /\ NoFunctionCall
  /\ config \in Options
  /\ entry \in {"generateDotpkg", "generateDotpkgStream"}
  /\ pc = "resolving"
  /\ resolve = [schemaDef |-> "running", targetPath |-> "running", value |-> << >>]
  /\ schemaResolutions = 1
  /\ emitted = 0
  /\ nOutcomes = 0
  /\ outcome = NoResult
  /\ cycle = NoCycle
  /\ prev = NoPrev
  /\ result = NoResult

Next ==
  \/ ProvideSchemaFails
  \/ \E schemaDef \in StreamSchemaDefs : ProvideSchemaSucceeds(schemaDef)
  \/ \E r \in FsResults : ArtifactsDirMkdirSettles(r)
  \/ \E e \in AllFetchEmissions : FetchDataEmits(e)
  \/ WriteFilesForCacheBegins
  \/ \E d \in cycle.dirsPending, r \in FsResults : Mkdirp(d, r)
  \/ \E i \in DOMAIN cycle.status, a \in FsAnswers : WriteFile(i, a[1], a[2])
  \/ BundlerStarts
  \/ \E r \in BundlerResults : BundlerSettles(r)
  \/ SuccessCallbackSkipped
  \/ \E r \in FsResults : SuccessCallbackSettles(r)

Spec == Init /\ [][Next]_vars

(***************************************************************************)
(* makeDataExportFile on its own: every ordered list of distinct ids       *)
(***************************************************************************)

\* longest document id and longest id list handed to makeDataExportFile
BarrelMaxIdLen == 2
BarrelMaxIds == 2

\* a lower-case letter, an upper-case letter, a digit, a stripped character
BarrelChars == {"p", "P", "1", "-"}
BarrelTypeNames == { <<"P">>, <<"p">> }

SeqsUpTo(S, n) == UNION {[1..k -> S] : k \in 0..n}
BarrelIds == SeqsUpTo(BarrelChars, BarrelMaxIdLen) \ {<<>>}
IsInjective(f) == \A i, j \in DOMAIN f : f[i] = f[j] => i = j
BarrelIdLists == {l \in SeqsUpTo(BarrelIds, BarrelMaxIds) : IsInjective(l)}

InitBarrel ==
  /\ fnArgs \in [docDef : [name : BarrelTypeNames, isSingleton : {FALSE}],
                  documentIds : BarrelIdLists]
  /\ fnResult = NoResult
  /\ writtenFilesCache = << >>
  /\ disk = << >>
  /\ NoWriteCalls
  /\ NoStream

CallMakeDataExportFile ==
  /\ ~fnResult.returned
  /\ fnResult' = [returned |-> TRUE,
                  value |-> makeDataExportFile(fnArgs.docDef, fnArgs.documentIds)]
  /\ UNCHANGED <<fnArgs, writtenFilesCache, disk, wcVars, streamVars>>

NextBarrel == CallMakeDataExportFile

SpecBarrel == InitBarrel /\ [][NextBarrel]_vars

(***************************************************************************)
(* C9: in the barrel module of a collection type the import identifiers of *)
(* the documents are pairwise distinct, for every ordered list of distinct *)
(* document ids.                                                           *)
(***************************************************************************)
C9_ImportIdentifiersDistinct ==
  fnResult.returned => IsInjective(fnResult.value.exportArray)

\* the call just made was not skipped as up to date
Attempted(c) == c.called /\ c.ops # <<>>
StoredBefore(c) ==
  IF c.args.filePath \in DOMAIN c.cacheBefore
  THEN {c.cacheBefore[c.args.filePath]} ELSE {}
SameFingerprint(a, b) ==
  /\ hasDocumentHash(a) <=> hasDocumentHash(b)
  /\ hasDocumentHash(a) => a.documentHash = b.documentHash

(***************************************************************************)
(* C2: starting from a cache with no entry for the path, two consecutive   *)
(* successful calls with the same (filePath, content, fingerprint), for    *)
(* any provided fingerprint, and rmBeforeWrite=false make exactly one      *)
(* filesystem write: the first call writes, the second makes no filesystem *)
(* operation and leaves the cache unchanged.                               *)
(***************************************************************************)
C2_FirstOfTwo(c) ==
  /\ c.called /\ c.exit = "success"
  /\ hasDocumentHash(c.args)
  /\ "rmBeforeWrite" \in DOMAIN c.args /\ ~c.args.rmBeforeWrite
  /\ StoredBefore(c) = {}

C2_WriteTwiceWritesOnce ==
  [][ (/\ C2_FirstOfTwo(last)
       /\ nCalls' = nCalls + 1
       /\ last'.args = last.args
       /\ last'.exit = "success")
      => (/\ last.ops = <<"writeFile">>
          /\ last'.ops = <<>>
          /\ writtenFilesCache' = writtenFilesCache) ]_vars

(***************************************************************************)
(* C3: a call whose fingerprint differs from the one stored for the path   *)
(* (whatever rmBeforeWrite is) is never skipped, and when it succeeds it   *)
(* has written the new content and the cache stores the new fingerprint.   *)
(***************************************************************************)
C3_ChangedFingerprintRewrites ==
  (/\ last.called
   /\ hasDocumentHash(last.args)
   /\ StoredBefore(last) # {last.args.documentHash})
  => /\ Attempted(last)
     /\ last.exit = "success" =>
          /\ last.ops[Len(last.ops)] = "writeFile"
          /\ last.args.filePath \in DOMAIN disk
          /\ disk[last.args.filePath] = last.args.content
          /\ last.args.filePath \in DOMAIN writtenFilesCache
          /\ writtenFilesCache[last.args.filePath] = last.args.documentHash

(***************************************************************************)
(* C4: when the removal or the write of a call fails, the cache is as it   *)
(* was before the call, the failure is a typed error, and a later call     *)
(* with the same path and fingerprint attempts the write again instead of  *)
(* being skipped.  Stated for the failure of the write itself, the case   *)
(* in which the file is gone or stale after the call.                      *)
(***************************************************************************)
C4_FailureLeavesCacheAndRetries ==
  (last.called /\ last.exit = "WriteFileError") =>
    /\ writtenFilesCache = last.cacheBefore
    /\ \A b \in WcArgs :
         (b.filePath = last.args.filePath /\ SameFingerprint(b, last.args))
         => writeFileWithWrittenFilesCache(writtenFilesCache, disk, b, "ok", "ok").ops # <<>>

(***************************************************************************)
(* C1: within one stream, after a cycle has succeeded, another cycle over  *)
(* an identical Cache snapshot makes no filesystem write or removal for    *)
(* the fingerprinted artifacts (the per-document JSON files and the        *)
(* per-type _index.json), and writes each unconditional artifact as often  *)
(* as the first cycle did.                                                 *)
(***************************************************************************)
writes(ops) == Cardinality({k \in DOMAIN ops : ops[k] = "writeFile"})

C1_RerunWritesNoFingerprintedArtifact ==
  (/\ pc = "successCallback" /\ IsRight(cycle.result)
   /\ prev.ok /\ prev.cache = cycle.emission.right)
  => \A i \in DOMAIN cycle.calls :
       IF hasDocumentHash(cycle.calls[i])
       THEN cycle.ops[i] = << >>
       ELSE writes(cycle.ops[i]) = writes(prev.ops[i])

(***************************************************************************)
(* C5: in streaming mode every emission of the data fetcher produces       *)
(* exactly one outcome element, and the stream never ends or fails: after  *)
(* every outcome it is fetching again.                                     *)
(***************************************************************************)
C5_EveryEmissionOneOutcome ==
  (/\ entry = "generateDotpkgStream"
   /\ resolve.schemaDef = "ok" /\ resolve.targetPath = "ok")
  => /\ pc \notin {"died", "ended", "done"}
     /\ nOutcomes = IF pc = "fetching" THEN emitted ELSE emitted - 1

(***************************************************************************)
(* C6: a configured success callback is invoked exactly once for a cycle   *)
(* that succeeded and never for a cycle whose data fetch, write batch or   *)
(* bundling failed.                                                        *)
(***************************************************************************)
C6_CallbackOncePerSuccessfulCycle ==
  (config.onSuccess /\ cycle.started)
  => /\ IsLeft(cycle.result) => cycle.callbackCalls = 0
     /\ (IsRight(cycle.result) /\ outcome # NoResult) => cycle.callbackCalls = 1

(***************************************************************************)
(* C7: generateDotpkg is the first cycle of the stream: it ends after at   *)
(* most one emission, without a second cycle, and returns the document     *)
(* count of the first outcome or fails with that outcome's typed error.    *)
(***************************************************************************)
C7_OneShotIsFirstCycle ==
  entry = "generateDotpkg"
  => /\ emitted <= 1
     /\ pc # "died"
     /\ "defect" \notin DOMAIN result
     /\ result.returned <=> pc = "done"
     /\ pc = "done" =>
          /\ nOutcomes = 1
          /\ result = IF IsRight(outcome)
                      THEN [returned |-> TRUE, value |-> outcome.right]
                      ELSE [returned |-> TRUE, failure |-> outcome.left]

(***************************************************************************)
(* C8: when provideSchema or ArtifactsDir.mkdir fails, the only element is *)
(* that error (one of the two when both fail): no data fetch is started,   *)
(* nothing is written, the WrittenFilesCache is unchanged, no bundling     *)
(* runs and the success callback is not invoked.                           *)
(***************************************************************************)
C8_ResolveFailureAborts ==
  (resolve.schemaDef = "fail" \/ resolve.targetPath = "fail")
  => /\ pc \in {"ended", "done"}
     /\ emitted = 0
     /\ cycle = NoCycle
     /\ writtenFilesCache = << >>
     /\ nOutcomes = 1
     /\ outcome \in {Left(ResolveErrors[k]) :
                       k \in {x \in {"schemaDef", "targetPath"} : resolve[x] = "fail"}}

\* both effects have failed and the directory's error is the one reported
C8_BothFailed ==
  /\ resolve.schemaDef = "fail" /\ resolve.targetPath = "fail"
  /\ outcome = Left("MkdirError")
  /\ entry = "generateDotpkgStream"

(***************************************************************************)
(* The fingerprints of two Cache snapshots that differ in one document's   *)
(* documentHash (lines 208-226)                                            *)
(***************************************************************************)

\* most documents in a snapshot
FpMaxDocs == 3

Id2b == <<"2","-","b">>
FpSchemaDef ==
  [hash |-> <<"s">>,
   documentTypeDefMap |-> << [name |-> Page, isSingleton |-> TRUE],
                             [name |-> Post, isSingleton |-> FALSE] >>]
FpTypeOf == [x \in {Home, Id1a, Id2b} |-> IF x = Home THEN Page ELSE Post]
\* document hashes: empty, and two of which one is the other twice
FpHashes == { << >>, <<"x">>, <<"x","x">> }
FpItems == {CacheItem(x, FpTypeOf[x], h) : x \in DOMAIN FpTypeOf, h \in FpHashes}
\* _id is unique within the fetched set
FpCaches ==
  {[cacheItemsMap |-> l] : l \in
     {l \in SeqsUpTo(FpItems, FpMaxDocs) :
        \A i, j \in DOMAIN l : l[i].document._id = l[j].document._id => i = j}}

\* the snapshot with the documentHash of its i-th document replaced by h
withDocumentHash(cache, i, h) ==
  LET d == cache.cacheItemsMap[i].document
  IN  [cacheItemsMap |-> [cache.cacheItemsMap EXCEPT ![i] = CacheItem(d._id, d.type, h)]]

\* the fingerprinted artifacts of a cycle, as ...individualDataJsonFiles,
\* ...collectionDataJsonFiles list them (lines 263-264)
fingerprintedFiles(schemaDef, cache) ==
  individualDataJsonFiles(cache) \o collectionDataJsonFiles(schemaDef, cache)

InitFP ==
  /\ fnArgs \in {a \in [cache : FpCaches, i : 1..FpMaxDocs, h : FpHashes] :
                    /\ a.i \in DOMAIN a.cache.cacheItemsMap
                    /\ a.cache.cacheItemsMap[a.i].documentHash # a.h}
  /\ fnResult = NoResult
  /\ writtenFilesCache = << >>
  /\ disk = << >>
  /\ NoWriteCalls
  /\ NoStream

SynthesizeTwoCycles ==
  /\ ~fnResult.returned
  /\ fnResult' =
       [returned |-> TRUE,
        before |-> fingerprintedFiles(FpSchemaDef, fnArgs.cache),
        after |-> fingerprintedFiles(FpSchemaDef,
                                     withDocumentHash(fnArgs.cache, fnArgs.i, fnArgs.h))]
  /\ UNCHANGED <<fnArgs, writtenFilesCache, disk, wcVars, streamVars>>

NextFP == SynthesizeTwoCycles

SpecFP == InitFP /\ [][NextFP]_vars

(***************************************************************************)
(* C10: between two cycles whose snapshots differ only in one document's   *)
(* documentHash, the fingerprint changes for exactly two files, that       *)
(* document's JSON file and the _index.json of its type; every other       *)
(* artifact keeps its path and its fingerprint.                            *)
(***************************************************************************)
C10_OneHashChangesTwoFingerprints ==
  fnResult.returned =>
    LET d == fnArgs.cache.cacheItemsMap[fnArgs.i].document
        changed == {j \in DOMAIN fnResult.before :
                      fnResult.before[j].documentHash # fnResult.after[j].documentHash}
    IN  /\ DOMAIN fnResult.after = DOMAIN fnResult.before
        /\ \A j \in DOMAIN fnResult.before :
             fnResult.after[j].filePath = fnResult.before[j].filePath
        /\ {fnResult.before[j].filePath : j \in changed}
             = { withPrefix3(Generated, d.type, idToFileName(d._id) \o DotJson),
                 withPrefix3(Generated, d.type, UIndexJson) }
        /\ Cardinality(changed) = 2

\* a Post's hash changes while the snapshot holds a second Post and the Page
C10_PostChangesBesidePage ==
  /\ fnResult.returned
  /\ Len(fnArgs.cache.cacheItemsMap) = 3
  /\ fnArgs.cache.cacheItemsMap[fnArgs.i].document.type = Post
  /\ fnArgs.h = << >>

(***************************************************************************)
(* The artifacts of one cycle (lines 185-266), for a schema with the       *)
(* singleton type Page and the collection type Post                        *)
(***************************************************************************)

\* most documents in the Cache handed to writeFilesForCache
SynthMaxDocs == 3

IdAB == <<"a","/","b">>
IdA__B == <<"a","_","_","b">>
IdIndex == <<"_","i","n","d","e","x">>
SynthTypeOf ==
  [x \in {Home, Id1a, Id2b, IdAB, IdA__B, IdIndex} |-> IF x = Home THEN Page ELSE Post]
SynthItems == {CacheItem(x, SynthTypeOf[x], H1) : x \in DOMAIN SynthTypeOf}
\* _id is unique within the fetched set
SynthCaches ==
  {[cacheItemsMap |-> l] : l \in
     {l \in SeqsUpTo(SynthItems, SynthMaxDocs) :
        \A i, j \in DOMAIN l : l[i].document._id = l[j].document._id => i = j}}

InitSynth ==
  /\ fnArgs \in [cache : SynthCaches, options : Options, isDev : BOOLEAN]
  /\ fnResult = NoResult
  /\ writtenFilesCache = << >>
  /\ disk = << >>
  /\ NoWriteCalls
  /\ NoStream

\* lines 185-266 up to the start of the batch: the directories to make, the
\* writeFile calls and whether the bundler is a member of the batch
SynthesizeArtifacts ==
  /\ ~fnResult.returned
  /\ fnResult' =
       IF synthesisDefect(FpSchemaDef, fnArgs.cache)
       THEN [returned |-> TRUE, defect |-> "TypeError"]
       ELSE [returned |-> TRUE,
             dirs |-> dirPaths(FpSchemaDef),
             calls |-> writeFileCalls(FpSchemaDef, fnArgs.cache, fnArgs.options,
                                      fnArgs.isDev),
             bundler |-> bundlerEnabled(fnArgs.options)]
  /\ UNCHANGED <<fnArgs, writtenFilesCache, disk, wcVars, streamVars>>

NextSynth == SynthesizeArtifacts

SpecSynth == InitSynth /\ [][NextSynth]_vars

\* the artifacts have been built
Synthesized == fnResult.returned /\ "calls" \in DOMAIN fnResult
\* the content written to a path, if exactly one call targets it
contentsAt(path) ==
  {fnResult.calls[k].content : k \in {k \in DOMAIN fnResult.calls :
                                        fnResult.calls[k].filePath = path}}
\* the paths of ...individualDataJsonFiles.map(writeFile) (line 263), which
\* follow the four root artifacts and the barrels in the batch
documentFilePaths ==
  LET first == 4 + Len(FpSchemaDef.documentTypeDefMap)
  IN  {fnResult.calls[first + i].filePath : i \in DOMAIN fnArgs.cache.cacheItemsMap}

\* the file name the rule gives: every "/" becomes "__", then a leading digit
\* gets "_" in front
RECURSIVE slashesDoubled(_)
slashesDoubled(s) ==
  IF s = << >> THEN << >>
  ELSE (IF Head(s) = "/" THEN <<"_", "_">> ELSE <<Head(s)>>) \o slashesDoubled(Tail(s))
fileNameByRule(id) ==
  LET r == slashesDoubled(id)
  IN  IF r # << >> /\ r[1] \in {"0","1","2","3","4","5","6","7","8","9"}
      THEN <<"_">> \o r ELSE r

\* the number of entries of allDocuments when the index module is evaluated:
\* one for a singleton, the length of the imported array for a spread
allDocumentsLength ==
  LET mjs == CHOOSE c \in contentsAt(withPrefix2(Generated, IndexMjs)) : TRUE
      len(i) ==
        IF ~mjs.allDocuments[i].spread THEN 1
        ELSE LET m == CHOOSE c \in contentsAt(<<Generated>> \o mjs.constImports[i].from) : TRUE
             IN  IF "exportArray" \in DOMAIN m THEN Len(m.exportArray) ELSE Len(m.array)
      RECURSIVE sum(_)
      sum(n) == IF n = 0 THEN 0 ELSE len(n) + sum(n - 1)
  IN  sum(Len(mjs.allDocuments))

RoundTripCache ==
  [cacheItemsMap |-> << CacheItem(Home, Page, H1), CacheItem(Id1a, Post, H1),
                        CacheItem(Id2b, Post, H1) >>]

\* the aggregates and allDocuments of the example (Page home; Post 1-a, 2-b)
RoundTripAggregates ==
  /\ contentsAt(withPrefix3(Generated, Page, UIndexJson))
       = {RoundTripCache.cacheItemsMap[1].document}
  /\ contentsAt(withPrefix3(Generated, Post, UIndexJson))
       = {[array |-> << RoundTripCache.cacheItemsMap[2].document,
                       RoundTripCache.cacheItemsMap[3].document >>]}
  /\ allDocumentsLength = 3

EveryDocumentAtItsFileName ==
  \A i \in DOMAIN fnArgs.cache.cacheItemsMap :
    LET d == fnArgs.cache.cacheItemsMap[i].document
    IN  d \in contentsAt(withPrefix3(Generated, d.type, fileNameByRule(d._id) \o DotJson))

(***************************************************************************)
(* C11, as stated: every document with id i of type T is written to        *)
(* generated/T/<fileName(i)>.json, and for Page {home} and Post {1-a, 2-b} *)
(* the per-document files are Page/home.json, Post/_1_a.json and           *)
(* Post/_2_b.json, Page/_index.json holds the document, Post/_index.json   *)
(* the two documents in order, and allDocuments has 3 entries.             *)
(***************************************************************************)
C11_RoundTripAsStated ==
  Synthesized =>
    /\ EveryDocumentAtItsFileName
    /\ fnArgs.cache = RoundTripCache =>
         /\ documentFilePaths =
              { withPrefix3(Generated, Page, <<"h","o","m","e">> \o DotJson),
                withPrefix3(Generated, Post, <<"_","1","_","a">> \o DotJson),
                withPrefix3(Generated, Post, <<"_","2","_","b">> \o DotJson) }
         /\ RoundTripAggregates

(***************************************************************************)
(* C11, amended: the same, with the per-document files of Post named       *)
(* Post/_1-a.json and Post/_2-b.json: only "/" is replaced, "-" is kept.   *)
(***************************************************************************)
C11_RoundTripHyphenKept ==
  Synthesized =>
    /\ EveryDocumentAtItsFileName
    /\ fnArgs.cache = RoundTripCache =>
         /\ documentFilePaths =
              { withPrefix3(Generated, Page, <<"h","o","m","e">> \o DotJson),
                withPrefix3(Generated, Post, <<"_","1","-","a">> \o DotJson),
                withPrefix3(Generated, Post, <<"_","2","-","b">> \o DotJson) }
         /\ RoundTripAggregates

\* the example's schema and documents have been synthesized
C11_RoundTripSynthesized ==
  Synthesized /\ fnArgs.cache = RoundTripCache /\ fnArgs.isDev

(***************************************************************************)
(* C12: for every value of enableDynamicBuild (set, false or absent) the   *)
(* bundler is a member of the cycle's batch exactly when the flag is set,  *)
(* and index.mjs and index.d.ts carry the fetchContent export exactly when *)
(* the bundler is invoked.                                                 *)
(***************************************************************************)
C12_FetchContentIffBundler ==
  Synthesized =>
    /\ fnResult.bundler <=> fnArgs.options.enableDynamicBuild = "true"
    /\ \A c \in contentsAt(withPrefix2(Generated, IndexMjs))
              \cup contentsAt(withPrefix2(Generated, IndexDTs)) :
         c.fetchContent <=> fnResult.bundler

(***************************************************************************)
(* C13: in a cycle with the bundler enabled, the bundler does not start    *)
(* before every artifact write of the batch has settled: it never runs     *)
(* while a write of the same cycle is pending.                             *)
(***************************************************************************)
C13_BundlerAfterWrites ==
  ~(/\ cycle.bundler = "running"
    /\ \E i \in DOMAIN cycle.status : cycle.status[i] = "pending")

(***************************************************************************)
(* C14: in streaming mode cycles never overlap: the next emission is taken *)
(* up only when every earlier emission has produced its outcome and no     *)
(* directory creation, write or bundler of the earlier cycle is pending or *)
(* running.                                                                *)
(***************************************************************************)
cycleSettled ==
  /\ cycle.dirsPending = {}
  /\ \A i \in DOMAIN cycle.status : cycle.status[i] # "pending"
  /\ cycle.bundler \notin {"pending", "running"}

C14_CyclesDoNotOverlap ==
  [][ emitted' = emitted + 1
      => /\ pc = "fetching"
         /\ nOutcomes = emitted
         /\ cycleSettled ]_vars

\* a second cycle is in its batch after the first failed in its batch
C14_SecondCycleInBatch ==
  /\ entry = "generateDotpkgStream"
  /\ emitted = 2 /\ nOutcomes = 1
  /\ IsRight(cycle.emission) /\ ~prev.ok
  /\ pc = "tuplePar" /\ cycle.bundler = "running"

(***************************************************************************)
(* C15: for documents with unique _id whose type is a type of the schema,  *)
(* the artifacts of one cycle have pairwise distinct file paths, so no two *)
(* writes of the batch target the same path or WrittenFilesCache key.      *)
(***************************************************************************)
C15_ArtifactPathsDistinct ==
  Synthesized =>
    IsInjective([k \in DOMAIN fnResult.calls |-> fnResult.calls[k].filePath])

(***************************************************************************)
(* C20: for every type of the schema without document in the Cache,        *)
(* singleton or collection, artifact synthesis does not crash, and the     *)
(* cycle makes the type's directory and writes its barrel file (an empty   *)
(* export array for a collection) and its aggregate _index.json.           *)
(***************************************************************************)
C20_TypeWithoutDocuments ==
  fnResult.returned =>
    /\ Synthesized
    /\ \A t \in DOMAIN FpSchemaDef.documentTypeDefMap :
         LET def == FpSchemaDef.documentTypeDefMap[t]
         IN  (\A i \in DOMAIN fnArgs.cache.cacheItemsMap :
                fnArgs.cache.cacheItemsMap[i].document.type # def.name)
             => /\ withPrefix2(Generated, def.name) \in Range(fnResult.dirs)
                /\ contentsAt(withPrefix3(Generated, def.name, UIndexMjs)) # {}
                /\ ~def.isSingleton =>
                     \A c \in contentsAt(withPrefix3(Generated, def.name, UIndexMjs)) :
                       c.exportArray = << >>
                /\ contentsAt(withPrefix3(Generated, def.name, UIndexJson)) # {}

(***************************************************************************)
(* C16, as stated: the stream resolves the schema once per emission: the   *)
(* number of schema resolutions equals the number of emissions processed.  *)
(***************************************************************************)
C16_ResolvesPerEmission ==
  (entry = "generateDotpkgStream" /\ emitted >= 1) => schemaResolutions = emitted

(***************************************************************************)
(* C16, amended: the stream resolves the schema and the target directory   *)
(* once, before the first emission; every element of a cycle leaves the    *)
(* resolved parameters as they are and the stream fetching the next        *)
(* emission, so the number of schema resolutions is 1 however many         *)
(* emissions are processed.                                                *)
(***************************************************************************)
C16_ResolvesOncePerStream ==
  /\ [](entry = "generateDotpkgStream" => schemaResolutions = 1)
  /\ [][ (entry = "generateDotpkgStream" /\ emitted >= 1 /\ nOutcomes' = nOutcomes + 1)
         => (pc' = "fetching" /\ resolve' = resolve) ]_vars

\* the second emission is being processed with the schema resolved at the start
C16_SecondEmissionSameSchema ==
  /\ entry = "generateDotpkgStream"
  /\ emitted = 2 /\ pc = "tuplePar"
  /\ schemaResolutions = 1 /\ resolve.schemaDef = "ok"

(***************************************************************************)
(* C17: the failure reported as a cycle's outcome is the original typed    *)
(* error of the step that failed: when the data fetch or the write/bundle  *)
(* batch fails with e, the outcome is the failure e and no later step,     *)
(* the success callback included, replaces it.                             *)
(***************************************************************************)
C17_OriginalErrorIsOutcome ==
  (cycle.started /\ IsLeft(cycle.result) /\ outcome # NoResult)
  => outcome = cycle.result

(***************************************************************************)
(* C19: in every cycle the directory generated and every directory         *)
(* generated/<typeName> have been made before a write into them starts;    *)
(* when a directory creation fails, no artifact of the cycle is written    *)
(* and the outcome of the cycle is that failure.                           *)
(***************************************************************************)
parentDir(filePath) == SubSeq(filePath, 1, Len(filePath) - 1)

C19_DirectoriesBeforeWrites ==
  /\ pc = "tuplePar" =>
       /\ cycle.dirsMade = Range(dirPaths(resolve.value))
       /\ \A i \in DOMAIN cycle.calls :
            Len(cycle.calls[i].filePath) > 1 => parentDir(cycle.calls[i].filePath) \in cycle.dirsMade
  /\ (cycle.started /\ cycle.result = Left("MkdirError")) =>
       /\ pc \in {"successCallback", "fetching", "done"}
       /\ cycle.status = << >> /\ cycle.ops = << >> /\ cycle.bundler = "none"
       /\ outcome # NoResult => outcome = Left("MkdirError")

(***************************************************************************)
(* The aggregate file of one collection type written for two member lists  *)
(* in turn (lines 214-226, 321-335)                                        *)
(***************************************************************************)

\* most members of the type in one list
AggMaxDocs == 2

AggSchemaDef ==
  [hash |-> <<"s">>,
   documentTypeDefMap |-> << [name |-> Post, isSingleton |-> FALSE] >>]
\* document hashes of unequal lengths, one the other twice
AggHashes == { <<"x">>, <<"x","x">> }
AggItems == {CacheItem(x, Post, h) : x \in {Id1a, Id2b}, h \in AggHashes}
AggCaches ==
  {[cacheItemsMap |-> l] : l \in
     {l \in SeqsUpTo(AggItems, AggMaxDocs) :
        \A i, j \in DOMAIN l : l[i].document._id = l[j].document._id => i = j}}

InitAgg ==
  /\ fnArgs \in [first : AggCaches, second : AggCaches]
  /\ fnResult = NoResult
  /\ writtenFilesCache = << >>
  /\ disk = << >>
  /\ NoWriteCalls
  /\ NoStream

\* the aggregate artifact of the type, written without removal
aggregateCall(cache) ==
  LET f == collectionDataJsonFiles(AggSchemaDef, cache)[1]
  IN  [filePath |-> f.filePath, content |-> f.content,
       documentHash |-> f.documentHash, rmBeforeWrite |-> FALSE]

\* both aggregates are built and written in turn on one WrittenFilesCache,
\* every filesystem call succeeding
WriteAggregateTwice ==
  /\ ~fnResult.returned
  /\ LET a1 == aggregateCall(fnArgs.first)
         a2 == aggregateCall(fnArgs.second)
         r1 == writeFileWithWrittenFilesCache(writtenFilesCache, disk, a1, "ok", "ok")
         r2 == writeFileWithWrittenFilesCache(r1.cache, r1.disk, a2, "ok", "ok")
     IN  /\ fnResult' = [returned |-> TRUE, calls |-> <<a1, a2>>, ops |-> <<r1.ops, r2.ops>>]
         /\ writtenFilesCache' = r2.cache
         /\ disk' = r2.disk
  /\ UNCHANGED <<fnArgs, wcVars, streamVars>>

NextAgg == WriteAggregateTwice

SpecAgg == InitAgg /\ [][NextAgg]_vars

(***************************************************************************)
(* C18: two member lists of a type that differ by a reorder, an added or   *)
(* removed member or a changed member hash have different aggregate        *)
(* fingerprints, so the write of the changed aggregate with                *)
(* rmBeforeWrite=false is not skipped and the file holds the new content.  *)
(***************************************************************************)
C18_AggregateFingerprintDistinguishes ==
  (fnResult.returned /\ fnArgs.first # fnArgs.second)
  => /\ fnResult.calls[1].documentHash # fnResult.calls[2].documentHash
     /\ fnResult.ops[2] # << >>
     /\ disk[fnResult.calls[2].filePath] = fnResult.calls[2].content

(***************************************************************************)
(* C21: after any sequence of write calls on one WrittenFilesCache, with   *)
(* any rmBeforeWrite values and any removal or write failures, whenever    *)
(* the cache stores a fingerprint for a path the file at that path exists  *)
(* on disk, so a call that is skipped as up to date never leaves a missing *)
(* file; this includes the state after a call whose removal succeeded and  *)
(* whose write failed.                                                     *)
(***************************************************************************)
C21_CachedFileExists ==
  /\ \A p \in DOMAIN writtenFilesCache : p \in DOMAIN disk
  /\ (last.called /\ last.exit = "success" /\ last.ops = << >>)
       => last.args.filePath \in DOMAIN disk

====
